---- MODULE Spec2Model ----
(***************************************************************************)
(* State-machine model of the tenant catalogue and of the user role/groups *)
(* synchronisation of authentication/models.py and project/models.py.      *)
(*                                                                         *)
(* The stored rows (database) and the in-memory model instances are kept   *)
(* apart: a signal handler reads `instance.role_id` from the instance it   *)
(* is handed and writes the stored row with a queryset update.             *)
(***************************************************************************)
EXTENDS Naturals, Integers, FiniteSets, Sequences, TLC

\* ---------------------------------------------------------------- bounds
NumGroups == 2
NumInst == 1
NumOrgs == 2
MaxRows == 2
NumRfp == 1
NumCat == 1
NumUsers == 1
MaxOwned == 2
NumFinal == 2
NumInvites == 2
MaxTime == 3
MaxAssign == 2

\* None / SQL NULL.  Primary keys start at 1.
NULL == 0

GroupIds == 1..NumGroups
Insts == 1..NumInst

Orgs == 1..NumOrgs
OrgOrNone == Orgs \cup {NULL}

VARIABLES
    \* -- authentication: one user row and its in-memory instances
    role,        \* auth user row: stored role_id (NULL or a group pk)
    groups,      \* stored rows of User.groups.through for the user: set of group pks
    role_id,     \* role_id[i]: the role_id attribute of in-memory User instance i
    assigned,    \* assigned[i]: instance i had its role assigned since it was loaded
    last,        \* the last completed database operation: its arguments, the
                 \* role_id of the instance used (rid) and whether it had been
                 \* assigned, the stored role and groups before it, and the
                 \* receivers it ran
    \* -- project: one tenant-aware catalogue table
    model,       \* the catalogue model class the table belongs to
    rows,        \* its stored rows, by pk: organization, natural key, blocked_for
    seen,        \* the last visible_to() call and the pks it returned
    created,     \* how the last create() ended
    \* -- project: the proposal graph
    service,            \* pks of the stored Service rows
    business_cycle,     \* pks of the stored BusinessCycle rows
    functional_area,    \* stored FunctionalArea rows: <<pk, business_cycle_id>>
    generated_rfp,      \* pks of the stored GeneratedRFP rows
    rfp_services,       \* project_generatedrfp_services: <<generated_rfp_id, service_id>>
    rfp_business_cycles,\* project_generatedrfp_business_cycles: <<generated_rfp_id, business_cycle_id>>
    rfp_areas,          \* project_generatedrfp_areas: <<generated_rfp_id, functional_area_id>>
    outcome,            \* the last operation on the proposal graph and how it ended
    \* -- users and what refers to them
    users,       \* pks of the stored User rows
    catalogue,   \* stored catalogue rows with their creator: pk, organization, user, name
    proposals,   \* stored GeneratedRFP rows with their owner: pk, user
    finalized,   \* stored FinalizedRFP rows: pk, source_rfp, organization, snapshot_data
    removal,     \* the last delete of a user or proposal and the rows it set to null
    \* -- invites
    now,          \* timezone.now()
    invite,       \* the Invite objects in memory: pk -> [is_active, expires_at]
    invite_row,   \* the stored Invite rows: pk -> [is_active, expires_at]
    deactivated,  \* pks of the invites on which deactivate() has been called
    \* -- business-cycle assignments
    assignments,  \* stored UserBusinessCycleAssignment rows: pk, user, organization, business_cycle
    assigning,    \* how the last write to that table ended
    \* -- a save in progress and a concurrent reader
    pending,      \* the save whose row is written and whose post_save has not run
    observed      \* what the reader last read: stored role and groups, and whether mid-save

syncVars == <<role, groups, role_id, assigned, last>>
catVars == <<model, rows, seen, created>>
rfpTables == <<service, business_cycle, functional_area, generated_rfp,
               rfp_services, rfp_business_cycles, rfp_areas>>
rfpVars == <<rfpTables, outcome>>

ownVars == <<users, catalogue, proposals, finalized, removal>>

inviteVars == <<now, invite, invite_row, deactivated>>

assignVars == <<assignments, assigning>>

txnVars == <<pending, observed>>

vars == <<syncVars, catVars, rfpVars, ownVars, inviteVars, assignVars, txnVars>>

\* ------------------------------------------------------------------------
\*  Database view threaded through one operation: the stored role, the
\*  stored groups and the receivers invoked so far.
\* ------------------------------------------------------------------------
Db(r, g, c) == [role |-> r, groups |-> g, calls |-> c]

Called(st, name) == [st EXCEPT !.calls = Append(@, name)]

\* instance.groups.order_by("pk").values_list("pk", flat=True).first()
FirstByPk(g) == IF g = {} THEN NULL ELSE CHOOSE x \in g : \A y \in g : x <= y

\* Slip: the role written with instance.role = new_role_id; instance.save(),
\* which sends pre_save and post_save to the receivers of User again.
UpdateRoleBySave(st, new_role_id) ==
    Called(Called([st EXCEPT !.role = new_role_id], "_remember_desired_role"),
           "_sync_role_to_groups")

\* User.objects.filter(pk=instance.pk).update(role=new_role_id): a queryset
\* update writes the stored row only; it sends no pre_save/post_save and
\* leaves the in-memory instance as it was.
UpdateRole(st, new_role_id) == [st EXCEPT !.role = new_role_id]

\* next(iter(pk_set), None) if pk_set else <lowest pk of the stored groups>.
\* The iteration order of a Python set is not specified: any element of a
\* non-empty pk_set may come first.  pk_set = None (post_clear) and the
\* empty set are both falsy and are both written {} here.
NewRoleIds(st, pk_set) == IF pk_set # {} THEN pk_set ELSE {FirstByPk(st.groups)}

\* @receiver(m2m_changed, sender=User.groups.through)
_sync_groups_to_role(st, inst_role_id, action, pk_set) ==
    LET s0 == Called(st, "_sync_groups_to_role") IN
    IF action \notin {"post_add", "post_remove", "post_clear"}
    THEN {s0}
    ELSE { IF inst_role_id # new_role_id THEN UpdateRole(s0, new_role_id) ELSE s0 :
             new_role_id \in NewRoleIds(s0, pk_set) }

\* ------------------------------------------------------------------------
\*  The related manager of User.groups: the operations that send m2m_changed
\*  to _sync_groups_to_role.
\* ------------------------------------------------------------------------
\* instance.groups.remove(*ids): no signal for an empty argument list; pk_set
\* is the set of ids asked for, held or not.
M2MRemove(st, inst_role_id, ids) ==
    IF ids = {} THEN {st}
    ELSE UNION { _sync_groups_to_role([s EXCEPT !.groups = @ \ ids],
                                      inst_role_id, "post_remove", ids) :
                 s \in _sync_groups_to_role(st, inst_role_id, "pre_remove", ids) }

\* instance.groups.add(*ids): no signal for an empty argument list; pk_set
\* is the set of ids that were not yet held (possibly empty).
M2MAdd(st, inst_role_id, ids) ==
    IF ids = {} THEN {st}
    ELSE LET missing == ids \ st.groups
         IN UNION { _sync_groups_to_role([s EXCEPT !.groups = @ \cup missing],
                                         inst_role_id, "post_add", missing) :
                    s \in _sync_groups_to_role(st, inst_role_id, "pre_add", missing) }

\* instance.groups.set(ids): remove what is held and not wanted, then add
\* what is wanted and not held.
M2MSet(st, inst_role_id, ids) ==
    LET old_ids == st.groups \ ids
        new_objs == ids \ st.groups
    IN UNION { M2MAdd(s, inst_role_id, new_objs) :
               s \in M2MRemove(st, inst_role_id, old_ids) }

\* instance.groups.clear(): pre_clear and post_clear are sent with pk_set None.
M2MClear(st, inst_role_id) ==
    UNION { _sync_groups_to_role([s EXCEPT !.groups = {}],
                                 inst_role_id, "post_clear", {}) :
            s \in _sync_groups_to_role(st, inst_role_id, "pre_clear", {}) }

\* ------------------------------------------------------------------------
\*  User.save(): pre_save receiver, the row write, post_save receiver.
\* ------------------------------------------------------------------------
\* @receiver(pre_save, sender=User): instance._desired_role_id = instance.role_id
_remember_desired_role(inst_role_id) == inst_role_id

\* @receiver(post_save, sender=User)
_sync_role_to_groups(st, inst_role_id, desired_role_id) ==
    LET s0 == Called(st, "_sync_role_to_groups")
        rid == desired_role_id
    IN IF rid = NULL
       THEN {s0}
       ELSE M2MSet(s0, inst_role_id, IF rid # 0 THEN {rid} ELSE {})

\* The first half of instance.save(): pre_save, then the UPDATE of the row.
\* Model.save opens no transaction for a model without concrete parents, so
\* under autocommit the UPDATE is committed before post_save is sent.
SaveRow(st, inst_role_id) ==
    [Called(st, "_remember_desired_role") EXCEPT !.role = inst_role_id]

\* instance.save() of a loaded instance: every field, role_id included, is
\* written to the stored row between the two receivers.
SaveUser(st, inst_role_id) ==
    LET desired == _remember_desired_role(inst_role_id)
    IN _sync_role_to_groups(SaveRow(st, inst_role_id), inst_role_id, desired)

\* ------------------------------------------------------------------------
\*  Actions of the role/groups synchronisation
\* ------------------------------------------------------------------------
Start == Db(role, groups, <<>>)

Commit(op, i, ids, out) ==
    /\ pending.inst = NULL
    /\ role' = out.role
    /\ groups' = out.groups
    /\ last' = [op |-> op, ids |-> ids, rid |-> role_id[i], assigned |-> assigned[i],
                preRole |-> role, preGroups |-> groups, calls |-> out.calls]

\* user = User.objects.get(...) / user.refresh_from_db()
Load(i) ==
    /\ pending.inst = NULL
    /\ role_id[i] # role \/ assigned[i]
    /\ role_id' = [role_id EXCEPT ![i] = role]
    /\ assigned' = [assigned EXCEPT ![i] = FALSE]
    /\ UNCHANGED <<role, groups, last, catVars, rfpVars, ownVars, inviteVars, assignVars, txnVars>>

\* user.role = r   (in memory only, until saved)
AssignRole(i, r) ==
    /\ pending.inst = NULL
    /\ role_id[i] # r
    /\ role_id' = [role_id EXCEPT ![i] = r]
    /\ assigned' = [assigned EXCEPT ![i] = TRUE]
    /\ UNCHANGED <<role, groups, last, catVars, rfpVars, ownVars, inviteVars, assignVars, txnVars>>

\* user.save()
Save(i) ==
    /\ \E out \in SaveUser(Start, role_id[i]) : Commit("save", i, {}, out)
    /\ UNCHANGED <<role_id, assigned, catVars, rfpVars, ownVars, inviteVars, assignVars, txnVars>>

\* No save is in progress
NoSave == [inst |-> NULL, desired |-> NULL, preRole |-> NULL, preGroups |-> {}, calls |-> <<>>]

\* user.save() up to the committed UPDATE of the row
SaveWrite(i) ==
    /\ pending.inst = NULL
    /\ LET out == SaveRow(Start, role_id[i])
       IN /\ role' = out.role
          /\ pending' = [inst |-> i, desired |-> _remember_desired_role(role_id[i]),
                         preRole |-> role, preGroups |-> groups, calls |-> out.calls]
    /\ UNCHANGED <<groups, last, role_id, assigned, observed,
                   catVars, rfpVars, ownVars, inviteVars, assignVars>>

\* user.save() from post_save on: groups.set() in its own transaction
SavePost ==
    /\ pending.inst # NULL
    /\ LET i == pending.inst
           st == Db(role, groups, pending.calls)
       IN \E out \in _sync_role_to_groups(st, role_id[i], pending.desired) :
              /\ role' = out.role
              /\ groups' = out.groups
              /\ last' = [op |-> "save", ids |-> {}, rid |-> role_id[i],
                          assigned |-> assigned[i], preRole |-> pending.preRole,
                          preGroups |-> pending.preGroups, calls |-> out.calls]
    /\ pending' = NoSave
    /\ UNCHANGED <<role_id, assigned, observed,
                   catVars, rfpVars, ownVars, inviteVars, assignVars>>

\* Another connection reads the user's row and its groups
Observe ==
    /\ observed # [role |-> role, groups |-> groups, mid |-> pending.inst # NULL]
    /\ observed' = [role |-> role, groups |-> groups, mid |-> pending.inst # NULL]
    /\ UNCHANGED <<pending, syncVars, catVars, rfpVars, ownVars, inviteVars, assignVars>>

TxnStart ==
    /\ pending = NoSave
    /\ observed = [role |-> NULL, groups |-> {}, mid |-> FALSE]

\* user.groups.add(*ids)
GroupsAdd(i, ids) ==
    /\ \E out \in M2MAdd(Start, role_id[i], ids) : Commit("add", i, ids, out)
    /\ UNCHANGED <<role_id, assigned, catVars, rfpVars, ownVars, inviteVars, assignVars, txnVars>>

\* user.groups.remove(*ids)
GroupsRemove(i, ids) ==
    /\ \E out \in M2MRemove(Start, role_id[i], ids) : Commit("remove", i, ids, out)
    /\ UNCHANGED <<role_id, assigned, catVars, rfpVars, ownVars, inviteVars, assignVars, txnVars>>

\* user.groups.set(ids)
GroupsSet(i, ids) ==
    /\ \E out \in M2MSet(Start, role_id[i], ids) : Commit("set", i, ids, out)
    /\ UNCHANGED <<role_id, assigned, catVars, rfpVars, ownVars, inviteVars, assignVars, txnVars>>

\* user.groups.clear()
GroupsClear(i) ==
    /\ \E out \in M2MClear(Start, role_id[i]) : Commit("clear", i, {}, out)
    /\ UNCHANGED <<role_id, assigned, catVars, rfpVars, ownVars, inviteVars, assignVars, txnVars>>

\* A user row freshly inserted with no role and no groups; every instance
\* was loaded from it.
SyncStart ==
    /\ role = NULL
    /\ groups = {}
    /\ role_id = [i \in Insts |-> NULL]
    /\ assigned = [i \in Insts |-> FALSE]
    /\ last = [op |-> "init", ids |-> {}, rid |-> NULL, assigned |-> FALSE,
               preRole |-> NULL, preGroups |-> {}, calls |-> <<>>]

\* ------------------------------------------------------------------------
\*  Tenant-aware catalogue tables (project/models.py)
\* ------------------------------------------------------------------------
Models == {"Industry", "Service", "BusinessCycle", "FunctionalArea", "Provider"}

\* Values of the natural key: name, or company_name for Provider.
Names == {"a", "b"}

\* hasattr(self.model, "blocked_for"): only Industry mixes OrgVisibilityMixin in.
has_blocked_for(m) == m = "Industry"

Pks(rs) == DOMAIN rs

\* qs.filter(organization__isnull=True)
FilterGlobal(rs, qs) == { k \in qs : rs[k].organization = NULL }

\* Slip: the organization filter left out, every row kept.
FilterNothing(rs, qs, org) == qs

\* qs.filter(Q(organization__isnull=True) | Q(organization=org))
FilterGlobalOrOwn(rs, qs, org) ==
    { k \in qs : rs[k].organization = NULL \/ rs[k].organization = org }

\* qs.exclude(blocked_for=org) on the many-to-many relation.  For an
\* organization the rows whose blocked_for holds it are dropped, whoever owns
\* them.  blocked_for=None is the lookup blocked_for__isnull=True, which
\* matches the rows with no blocked_for entry: excluding it drops those and
\* keeps the rows that block at least one organization.
ExcludeBlockedFor(rs, qs, org) ==
    IF org = NULL
    THEN { k \in qs : rs[k].blocked_for # {} }
    ELSE { k \in qs : org \notin rs[k].blocked_for }

\* TenantAwareQuerySet.visible_to(org) on the table rs of model class m
visible_to(m, rs, org) ==
    LET qs == IF org = NULL
              THEN FilterGlobal(rs, Pks(rs))
              ELSE FilterGlobalOrOwn(rs, Pks(rs), org)
    IN IF has_blocked_for(m) THEN ExcludeBlockedFor(rs, qs, org) ELSE qs

\* UniqueConstraint(fields=['organization', <natural key>]): the unique index
\* treats NULLs as distinct, so only rows with the same non-NULL organization
\* and the same key conflict.
ViolatesUnique(rs, org, name) ==
    \E k \in Pks(rs) :
        /\ rs[k].organization # NULL
        /\ rs[k].organization = org
        /\ rs[k].name = name

NoQuery == [org |-> NULL, pks |-> {}, asked |-> FALSE]

\* Model.objects.create(organization=org, name=name)
Create(org, name) ==
    /\ Len(rows) < MaxRows
    /\ IF ViolatesUnique(rows, org, name)
       THEN /\ created' = [org |-> org, name |-> name, result |-> "IntegrityError"]
            /\ rows' = rows
       ELSE /\ created' = [org |-> org, name |-> name, result |-> "ok"]
            /\ rows' = Append(rows, [organization |-> org, name |-> name,
                                     blocked_for |-> {}])
    /\ seen' = NoQuery
    /\ UNCHANGED <<model, syncVars, rfpVars, ownVars, inviteVars, assignVars, txnVars>>

\* row.blocked_for.add(org)
Block(k, org) ==
    /\ has_blocked_for(model)
    /\ k \in Pks(rows)
    /\ org \notin rows[k].blocked_for
    /\ rows' = [rows EXCEPT ![k].blocked_for = @ \cup {org}]
    /\ seen' = NoQuery
    /\ UNCHANGED <<model, created, syncVars, rfpVars, ownVars, inviteVars, assignVars, txnVars>>

\* row.blocked_for.remove(org)
Unblock(k, org) ==
    /\ has_blocked_for(model)
    /\ k \in Pks(rows)
    /\ org \in rows[k].blocked_for
    /\ rows' = [rows EXCEPT ![k].blocked_for = @ \ {org}]
    /\ seen' = NoQuery
    /\ UNCHANGED <<model, created, syncVars, rfpVars, ownVars, inviteVars, assignVars, txnVars>>

\* Model.objects.visible_to(org)
Query(org) ==
    /\ seen' = [org |-> org, pks |-> visible_to(model, rows, org), asked |-> TRUE]
    /\ UNCHANGED <<model, rows, created,
                   syncVars, rfpVars, ownVars, inviteVars, assignVars, txnVars>>

CatStart(m) ==
    /\ model = m
    /\ rows = <<>>
    /\ seen = NoQuery
    /\ created = [org |-> NULL, name |-> "a", result |-> "none"]

\* ------------------------------------------------------------------------
\*  The proposal graph (project/models.py): GeneratedRFP, the catalogue rows
\*  it references through explicit join models, and the on_delete rule of
\*  every foreign key involved.
\* ------------------------------------------------------------------------
RfpIds == 1..NumRfp
CatIds == 1..NumCat

\* ProjectGeneratedRFPService.generated_rfp / .service
on_delete_rfp_services_generated_rfp == "CASCADE"
on_delete_rfp_services_service == "PROTECT"
\* ProjectGeneratedRFPBusinessCycle.generated_rfp / .business_cycle
on_delete_rfp_business_cycles_generated_rfp == "CASCADE"
on_delete_rfp_business_cycles_business_cycle == "PROTECT"
\* Slip: the catalogue side of a join declared like the proposal side.
on_delete_cascade_slip == "CASCADE"
\* Slip: the proposal side of a join declared like the catalogue side.
on_delete_protect_slip == "PROTECT"
\* ProjectGeneratedRFPArea.generated_rfp / .area
on_delete_rfp_areas_generated_rfp == "CASCADE"
on_delete_rfp_areas_area == "PROTECT"
\* FunctionalArea.business_cycle
on_delete_functional_area_business_cycle == "CASCADE"

\* What deleting the referenced rows does to the rows `refs` that point at
\* them through a foreign key with rule `rule`: PROTECT blocks the delete
\* while any such row exists, CASCADE deletes them with it.
Blocks(rule, refs) == rule = "PROTECT" /\ refs # {}
Swept(rule, refs) == IF rule = "CASCADE" THEN refs ELSE {}

Plan(p, s, b, a, r, js, jb, ja) ==
    [protected |-> p, service |-> s, business_cycle |-> b, functional_area |-> a,
     generated_rfp |-> r, rfp_services |-> js, rfp_business_cycles |-> jb, rfp_areas |-> ja]

\* The deletion collector, per model: the rows a delete would remove and
\* whether a protected reference stops it.  Nothing is deleted while collecting.
CollectService(s) ==
    LET refs == { j \in rfp_services : j[2] = s }
    IN Plan(Blocks(on_delete_rfp_services_service, refs), {s}, {}, {}, {},
            Swept(on_delete_rfp_services_service, refs), {}, {})

CollectAreas(as) ==
    LET refs == { j \in rfp_areas : j[2] \in as }
    IN Plan(Blocks(on_delete_rfp_areas_area, refs), {}, {},
            { fa \in functional_area : fa[1] \in as }, {},
            {}, {}, Swept(on_delete_rfp_areas_area, refs))

CollectBusinessCycle(b) ==
    LET refs == { j \in rfp_business_cycles : j[2] = b }
        children == { fa \in functional_area : fa[2] = b }
        sub == CollectAreas({ fa[1] : fa \in Swept(on_delete_functional_area_business_cycle, children) })
    IN Plan(\/ Blocks(on_delete_rfp_business_cycles_business_cycle, refs)
            \/ Blocks(on_delete_functional_area_business_cycle, children)
            \/ sub.protected,
            {}, {b}, sub.functional_area, {},
            {}, Swept(on_delete_rfp_business_cycles_business_cycle, refs), sub.rfp_areas)

CollectGeneratedRFP(r) ==
    LET js == { j \in rfp_services : j[1] = r }
        jb == { j \in rfp_business_cycles : j[1] = r }
        ja == { j \in rfp_areas : j[1] = r }
    IN Plan(\/ Blocks(on_delete_rfp_services_generated_rfp, js)
            \/ Blocks(on_delete_rfp_business_cycles_generated_rfp, jb)
            \/ Blocks(on_delete_rfp_areas_generated_rfp, ja),
            {}, {}, {}, {r},
            Swept(on_delete_rfp_services_generated_rfp, js),
            Swept(on_delete_rfp_business_cycles_generated_rfp, jb),
            Swept(on_delete_rfp_areas_generated_rfp, ja))

\* obj.delete(): collect, raise ProtectedError before anything is removed,
\* otherwise remove everything collected.
Delete(kind, pk, plan) ==
    /\ IF plan.protected
       THEN /\ UNCHANGED rfpTables
            /\ outcome' = [op |-> "delete", kind |-> kind, pk |-> pk, result |-> "ProtectedError"]
       ELSE /\ service' = service \ plan.service
            /\ business_cycle' = business_cycle \ plan.business_cycle
            /\ functional_area' = functional_area \ plan.functional_area
            /\ generated_rfp' = generated_rfp \ plan.generated_rfp
            /\ rfp_services' = rfp_services \ plan.rfp_services
            /\ rfp_business_cycles' = rfp_business_cycles \ plan.rfp_business_cycles
            /\ rfp_areas' = rfp_areas \ plan.rfp_areas
            /\ outcome' = [op |-> "delete", kind |-> kind, pk |-> pk, result |-> "ok"]
    /\ UNCHANGED <<syncVars, catVars, ownVars, inviteVars, assignVars, txnVars>>

DeleteService(s) ==
    /\ s \in service
    /\ Delete("Service", s, CollectService(s))

DeleteBusinessCycle(b) ==
    /\ b \in business_cycle
    /\ Delete("BusinessCycle", b, CollectBusinessCycle(b))

DeleteFunctionalArea(a) ==
    /\ \E fa \in functional_area : fa[1] = a
    /\ Delete("FunctionalArea", a, CollectAreas({a}))

DeleteGeneratedRFP(r) ==
    /\ r \in generated_rfp
    /\ Delete("GeneratedRFP", r, CollectGeneratedRFP(r))

Done(op, kind, pk) == outcome' = [op |-> op, kind |-> kind, pk |-> pk, result |-> "ok"]

CreateService(s) ==
    /\ s \notin service
    /\ service' = service \cup {s}
    /\ Done("create", "Service", s)
    /\ UNCHANGED <<business_cycle, functional_area, generated_rfp, rfp_services,
                   rfp_business_cycles, rfp_areas, syncVars, catVars,
                   ownVars, inviteVars, assignVars, txnVars>>

CreateBusinessCycle(b) ==
    /\ b \notin business_cycle
    /\ business_cycle' = business_cycle \cup {b}
    /\ Done("create", "BusinessCycle", b)
    /\ UNCHANGED <<service, functional_area, generated_rfp, rfp_services,
                   rfp_business_cycles, rfp_areas, syncVars, catVars,
                   ownVars, inviteVars, assignVars, txnVars>>

\* FunctionalArea.business_cycle is a required foreign key
CreateFunctionalArea(a, b) ==
    /\ \A fa \in functional_area : fa[1] # a
    /\ b \in business_cycle
    /\ functional_area' = functional_area \cup {<<a, b>>}
    /\ Done("create", "FunctionalArea", a)
    /\ UNCHANGED <<service, business_cycle, generated_rfp, rfp_services,
                   rfp_business_cycles, rfp_areas, syncVars, catVars,
                   ownVars, inviteVars, assignVars, txnVars>>

CreateGeneratedRFP(r) ==
    /\ r \notin generated_rfp
    /\ generated_rfp' = generated_rfp \cup {r}
    /\ Done("create", "GeneratedRFP", r)
    /\ UNCHANGED <<service, business_cycle, functional_area, rfp_services,
                   rfp_business_cycles, rfp_areas, syncVars, catVars,
                   ownVars, inviteVars, assignVars, txnVars>>

\* rfp.services.through.objects.create(...), unique per (generated_rfp, service)
LinkService(r, s) ==
    /\ r \in generated_rfp /\ s \in service
    /\ <<r, s>> \notin rfp_services
    /\ rfp_services' = rfp_services \cup {<<r, s>>}
    /\ Done("link", "Service", s)
    /\ UNCHANGED <<service, business_cycle, functional_area, generated_rfp,
                   rfp_business_cycles, rfp_areas, syncVars, catVars,
                   ownVars, inviteVars, assignVars, txnVars>>

LinkBusinessCycle(r, b) ==
    /\ r \in generated_rfp /\ b \in business_cycle
    /\ <<r, b>> \notin rfp_business_cycles
    /\ rfp_business_cycles' = rfp_business_cycles \cup {<<r, b>>}
    /\ Done("link", "BusinessCycle", b)
    /\ UNCHANGED <<service, business_cycle, functional_area, generated_rfp,
                   rfp_services, rfp_areas, syncVars, catVars,
                   ownVars, inviteVars, assignVars, txnVars>>

LinkFunctionalArea(r, a) ==
    /\ r \in generated_rfp /\ \E fa \in functional_area : fa[1] = a
    /\ <<r, a>> \notin rfp_areas
    /\ rfp_areas' = rfp_areas \cup {<<r, a>>}
    /\ Done("link", "FunctionalArea", a)
    /\ UNCHANGED <<service, business_cycle, functional_area, generated_rfp,
                   rfp_services, rfp_business_cycles, syncVars, catVars,
                   ownVars, inviteVars, assignVars, txnVars>>

\* deleting one join row
UnlinkService(r, s) ==
    /\ <<r, s>> \in rfp_services
    /\ rfp_services' = rfp_services \ {<<r, s>>}
    /\ Done("unlink", "Service", s)
    /\ UNCHANGED <<service, business_cycle, functional_area, generated_rfp,
                   rfp_business_cycles, rfp_areas, syncVars, catVars,
                   ownVars, inviteVars, assignVars, txnVars>>

UnlinkBusinessCycle(r, b) ==
    /\ <<r, b>> \in rfp_business_cycles
    /\ rfp_business_cycles' = rfp_business_cycles \ {<<r, b>>}
    /\ Done("unlink", "BusinessCycle", b)
    /\ UNCHANGED <<service, business_cycle, functional_area, generated_rfp,
                   rfp_services, rfp_areas, syncVars, catVars,
                   ownVars, inviteVars, assignVars, txnVars>>

UnlinkFunctionalArea(r, a) ==
    /\ <<r, a>> \in rfp_areas
    /\ rfp_areas' = rfp_areas \ {<<r, a>>}
    /\ Done("unlink", "FunctionalArea", a)
    /\ UNCHANGED <<service, business_cycle, functional_area, generated_rfp,
                   rfp_services, rfp_business_cycles, syncVars, catVars,
                   ownVars, inviteVars, assignVars, txnVars>>

\* ------------------------------------------------------------------------
\*  Users and the rows that refer to them: the creator of a catalogue row
\*  (TenantOwnedMixin.user), the owner of a proposal (GeneratedRFP.user) and
\*  the source of a finalized proposal (FinalizedRFP.source_rfp).
\* ------------------------------------------------------------------------
UserIds == 1..NumUsers
OwnedIds == 1..MaxOwned
FinalIds == 1..NumFinal

\* Contents of FinalizedRFP.snapshot_data
Snapshots == {"s1", "s2"}

\* Slips of the two SET_NULL declarations
on_delete_creator_slip == "CASCADE"
on_delete_source_slip == "CASCADE"

\* TenantOwnedMixin.user
on_delete_tenant_owned_user == "SET_NULL"
\* GeneratedRFP.user
on_delete_generated_rfp_user == "CASCADE"
\* FinalizedRFP.source_rfp
on_delete_finalized_rfp_source_rfp == "SET_NULL"

\* The rows `refs` whose foreign key is set to NULL when the rows they point
\* at are deleted.
Nulled(rule, refs) == IF rule = "SET_NULL" THEN refs ELSE {}

\* Deleting the proposals ps: the finalized rows derived from them.
FinalizedOf(ps) == { f \in finalized : \E p \in ps : f.source_rfp = p.pk }

\* Removing the proposals ps from the store, with what on_delete asks of the
\* finalized rows derived from them.
AfterProposalsGone(ps) ==
    LET refs == FinalizedOf(ps)
        gone == Swept(on_delete_finalized_rfp_source_rfp, refs)
        nulled == Nulled(on_delete_finalized_rfp_source_rfp, refs)
    IN [protected |-> Blocks(on_delete_finalized_rfp_source_rfp, refs),
        finalized |-> ((finalized \ gone) \ nulled)
                          \cup { [f EXCEPT !.source_rfp = NULL] : f \in nulled },
        nulled |-> { f.pk : f \in nulled }]

\* GeneratedRFP.delete()
DeleteProposal(r) ==
    /\ \E p \in proposals : p.pk = r
    /\ LET ps == { p \in proposals : p.pk = r }
           after == AfterProposalsGone(ps)
       IN IF after.protected
          THEN /\ UNCHANGED <<proposals, finalized>>
               /\ removal' = [op |-> "delete_rfp", pk |-> r, result |-> "ProtectedError",
                              nulled |-> {}]
          ELSE /\ proposals' = proposals \ ps
               /\ finalized' = after.finalized
               /\ removal' = [op |-> "delete_rfp", pk |-> r, result |-> "ok",
                              nulled |-> after.nulled]
    /\ UNCHANGED <<users, catalogue, syncVars, catVars, rfpVars, inviteVars, assignVars, txnVars>>

\* User.delete(): the catalogue rows the user created, the proposals the
\* user owns and, through those, the finalized rows derived from them.
DeleteUser(u) ==
    /\ u \in users
    /\ LET made == { c \in catalogue : c.user = u }
           owned == { p \in proposals : p.user = u }
           ps == Swept(on_delete_generated_rfp_user, owned)
           after == AfterProposalsGone(ps)
           gone == Swept(on_delete_tenant_owned_user, made)
           nulled == Nulled(on_delete_tenant_owned_user, made)
       IN IF \/ Blocks(on_delete_tenant_owned_user, made)
             \/ Blocks(on_delete_generated_rfp_user, owned)
             \/ after.protected
          THEN /\ UNCHANGED <<users, catalogue, proposals, finalized>>
               /\ removal' = [op |-> "delete_user", pk |-> u, result |-> "ProtectedError",
                              nulled |-> {}]
          ELSE /\ users' = users \ {u}
               /\ catalogue' = ((catalogue \ gone) \ nulled)
                                   \cup { [c EXCEPT !.user = NULL] : c \in nulled }
               /\ proposals' = (proposals \ ps) \ Nulled(on_delete_generated_rfp_user, owned)
               /\ finalized' = after.finalized
               /\ removal' = [op |-> "delete_user", pk |-> u, result |-> "ok",
                              nulled |-> { c.pk : c \in made } \cup after.nulled]
    /\ UNCHANGED <<syncVars, catVars, rfpVars, inviteVars, assignVars, txnVars>>

NoRemoval(op, pk) == removal' = [op |-> op, pk |-> pk, result |-> "ok", nulled |-> {}]

CreateUser(u) ==
    /\ u \notin users
    /\ users' = users \cup {u}
    /\ NoRemoval("create_user", u)
    /\ UNCHANGED <<catalogue, proposals, finalized,
                   syncVars, catVars, rfpVars, inviteVars, assignVars, txnVars>>

\* A catalogue row created by user u (or by nobody) for organization org
CreateCatalogueRow(pk, org, u, name) ==
    /\ \A c \in catalogue : c.pk # pk
    /\ u \in users \cup {NULL}
    /\ catalogue' = catalogue \cup
           {[pk |-> pk, organization |-> org, user |-> u, name |-> name]}
    /\ NoRemoval("create_row", pk)
    /\ UNCHANGED <<users, proposals, finalized,
                   syncVars, catVars, rfpVars, inviteVars, assignVars, txnVars>>

\* GeneratedRFP.user is a required foreign key
CreateProposal(r, u) ==
    /\ \A p \in proposals : p.pk # r
    /\ u \in users
    /\ proposals' = proposals \cup {[pk |-> r, user |-> u]}
    /\ NoRemoval("create_rfp", r)
    /\ UNCHANGED <<users, catalogue, finalized,
                   syncVars, catVars, rfpVars, inviteVars, assignVars, txnVars>>

\* FinalizedRFP.objects.create(source_rfp=r, organization=org, snapshot_data=snap)
CreateFinalized(pk, r, org, snap) ==
    /\ \A f \in finalized : f.pk # pk
    /\ \E p \in proposals : p.pk = r
    /\ finalized' = finalized \cup
           {[pk |-> pk, source_rfp |-> r, organization |-> org, snapshot_data |-> snap]}
    /\ NoRemoval("create_final", pk)
    /\ UNCHANGED <<users, catalogue, proposals,
                   syncVars, catVars, rfpVars, inviteVars, assignVars, txnVars>>

OwnStart ==
    /\ users = {}
    /\ catalogue = {}
    /\ proposals = {}
    /\ finalized = {}
    /\ removal = [op |-> "none", pk |-> NULL, result |-> "ok", nulled |-> {}]

\* ------------------------------------------------------------------------
\*  Invite
\* ------------------------------------------------------------------------
InviteIds == 1..NumInvites
Times == 0..MaxTime

\* is_valid without the is_active test
is_valid_unexpired(self, t) == self.expires_at > t

\* Invite.is_valid at time t
is_valid(self, t) == self.is_active /\ self.expires_at > t

\* Invite.deactivate: is_active False in memory, then
\* save(update_fields=["is_active"]) writes that one column.
deactivate(k) ==
    /\ k \in DOMAIN invite
    /\ invite' = [invite EXCEPT ![k].is_active = FALSE]
    /\ invite_row' = [invite_row EXCEPT ![k].is_active = FALSE]
    /\ deactivated' = deactivated \cup {k}
    /\ UNCHANGED <<now, syncVars, catVars, rfpVars, ownVars, assignVars, txnVars>>

\* Invite.objects.create(..., expires_at=at); is_active takes its default
CreateInvite(k, at) ==
    /\ k \notin DOMAIN invite
    /\ LET fresh == [is_active |-> TRUE, expires_at |-> at]
       IN /\ invite' = [j \in DOMAIN invite \cup {k} |-> IF j = k THEN fresh ELSE invite[j]]
          /\ invite_row' =
                 [j \in DOMAIN invite \cup {k} |-> IF j = k THEN fresh ELSE invite_row[j]]
    /\ UNCHANGED <<now, deactivated, syncVars, catVars, rfpVars, ownVars, assignVars, txnVars>>

\* refresh_from_db(): the object takes the stored columns
Refresh(k) ==
    /\ k \in DOMAIN invite
    /\ invite' = [invite EXCEPT ![k] = invite_row[k]]
    /\ UNCHANGED <<now, invite_row, deactivated,
                   syncVars, catVars, rfpVars, ownVars, assignVars, txnVars>>

\* Time passes
Tick ==
    /\ now < MaxTime
    /\ now' = now + 1
    /\ UNCHANGED <<invite, invite_row, deactivated,
                   syncVars, catVars, rfpVars, ownVars, assignVars, txnVars>>

InviteStart ==
    /\ now = 0
    /\ invite = << >>
    /\ invite_row = << >>
    /\ deactivated = {}

\* ------------------------------------------------------------------------
\*  UserBusinessCycleAssignment
\* ------------------------------------------------------------------------
AssignIds == 1..MaxAssign

\* The constraint check that is never made
NeverViolates(rs, row) == FALSE

\* unique_org_business_cycle_assignment: UniqueConstraint(fields=
\* ['organization', 'business_cycle']) without nulls_distinct. The store
\* compares a pair with a stored pair only where both columns hold a value:
\* a NULL is equal to nothing, itself included.
ViolatesAssignmentUnique(rs, row) ==
    \E a \in rs :
        /\ a.pk # row.pk
        /\ a.organization # NULL /\ a.business_cycle # NULL
        /\ a.organization = row.organization
        /\ a.business_cycle = row.business_cycle

\* UserBusinessCycleAssignment.objects.create(user=u, organization=org,
\* business_cycle=bc): every reference may be None
CreateAssignment(pk, u, org, bc) ==
    /\ \A a \in assignments : a.pk # pk
    /\ LET row == [pk |-> pk, user |-> u, organization |-> org, business_cycle |-> bc]
       IN IF ViolatesAssignmentUnique(assignments, row)
          THEN /\ assigning' = "IntegrityError"
               /\ UNCHANGED assignments
          ELSE /\ assigning' = "ok"
               /\ assignments' = assignments \cup {row}
    /\ UNCHANGED <<syncVars, catVars, rfpVars, ownVars, inviteVars, txnVars>>

\* assignment.user = u; assignment.save()
Reassign(pk, u) ==
    /\ \E a \in assignments :
          /\ a.pk = pk
          /\ a.user # u
          /\ LET row == [a EXCEPT !.user = u]
             IN IF ViolatesAssignmentUnique(assignments, row)
                THEN /\ assigning' = "IntegrityError"
                     /\ UNCHANGED assignments
                ELSE /\ assigning' = "ok"
                     /\ assignments' = (assignments \ {a}) \cup {row}
    /\ UNCHANGED <<syncVars, catVars, rfpVars, ownVars, inviteVars, txnVars>>

\* assignment.delete(), also what the CASCADE of its three references does
DeleteAssignment(pk) ==
    /\ \E a \in assignments : a.pk = pk
    /\ assignments' = { a \in assignments : a.pk # pk }
    /\ assigning' = "ok"
    /\ UNCHANGED <<syncVars, catVars, rfpVars, ownVars, inviteVars, txnVars>>

AssignStart ==
    /\ assignments = {}
    /\ assigning = "ok"

\* ------------------------------------------------------------------------
\*  Specifications
\* ------------------------------------------------------------------------
RfpStart ==
    /\ service = {}
    /\ business_cycle = {}
    /\ functional_area = {}
    /\ generated_rfp = {}
    /\ rfp_services = {}
    /\ rfp_business_cycles = {}
    /\ rfp_areas = {}
    /\ outcome = [op |-> "none", kind |-> "none", pk |-> NULL, result |-> "none"]

OtherStart == OwnStart /\ InviteStart /\ AssignStart /\ TxnStart

InitSync == SyncStart /\ CatStart("Industry") /\ RfpStart /\ OtherStart

NextSync ==
    \/ \E i \in Insts : Load(i)
    \/ \E i \in Insts, r \in GroupIds \cup {NULL} : AssignRole(i, r)
    \/ \E i \in Insts : Save(i)
    \/ \E i \in Insts, ids \in SUBSET GroupIds : GroupsAdd(i, ids)
    \/ \E i \in Insts, ids \in SUBSET GroupIds : GroupsRemove(i, ids)
    \/ \E i \in Insts, ids \in SUBSET GroupIds : GroupsSet(i, ids)
    \/ \E i \in Insts : GroupsClear(i)

SpecSync == InitSync /\ [][NextSync]_vars

\* The same operations with save() in its two committed halves and a reader
\* on another connection.
InitTxn == InitSync

NextTxn ==
    \/ \E i \in Insts : Load(i)
    \/ \E i \in Insts, r \in GroupIds \cup {NULL} : AssignRole(i, r)
    \/ \E i \in Insts : SaveWrite(i)
    \/ SavePost
    \/ \E i \in Insts, ids \in SUBSET GroupIds : GroupsAdd(i, ids)
    \/ \E i \in Insts, ids \in SUBSET GroupIds : GroupsRemove(i, ids)
    \/ \E i \in Insts, ids \in SUBSET GroupIds : GroupsSet(i, ids)
    \/ \E i \in Insts : GroupsClear(i)
    \/ Observe

SpecTxn == InitTxn /\ [][NextTxn]_vars

InitCat == SyncStart /\ (\E m \in Models : CatStart(m)) /\ RfpStart /\ OtherStart

NextCat ==
    \/ \E org \in OrgOrNone, name \in Names : Create(org, name)
    \/ \E k \in 1..MaxRows, org \in Orgs : Block(k, org)
    \/ \E k \in 1..MaxRows, org \in Orgs : Unblock(k, org)
    \/ \E org \in OrgOrNone : Query(org)

SpecCat == InitCat /\ [][NextCat]_vars

InitRfp == SyncStart /\ CatStart("Industry") /\ RfpStart /\ OtherStart

NextRfp ==
    \/ \E s \in CatIds : CreateService(s)
    \/ \E b \in CatIds : CreateBusinessCycle(b)
    \/ \E a \in CatIds, b \in CatIds : CreateFunctionalArea(a, b)
    \/ \E r \in RfpIds : CreateGeneratedRFP(r)
    \/ \E r \in RfpIds, s \in CatIds : LinkService(r, s)
    \/ \E r \in RfpIds, b \in CatIds : LinkBusinessCycle(r, b)
    \/ \E r \in RfpIds, a \in CatIds : LinkFunctionalArea(r, a)
    \/ \E r \in RfpIds, s \in CatIds : UnlinkService(r, s)
    \/ \E r \in RfpIds, b \in CatIds : UnlinkBusinessCycle(r, b)
    \/ \E r \in RfpIds, a \in CatIds : UnlinkFunctionalArea(r, a)
    \/ \E s \in CatIds : DeleteService(s)
    \/ \E b \in CatIds : DeleteBusinessCycle(b)
    \/ \E a \in CatIds : DeleteFunctionalArea(a)
    \/ \E r \in RfpIds : DeleteGeneratedRFP(r)

SpecRfp == InitRfp /\ [][NextRfp]_vars

InitCreator == SyncStart /\ CatStart("Industry") /\ RfpStart /\ OtherStart

NextCreator ==
    \/ \E u \in UserIds : CreateUser(u)
    \/ \E pk \in OwnedIds, org \in OrgOrNone, u \in UserIds \cup {NULL}, name \in Names :
           CreateCatalogueRow(pk, org, u, name)
    \/ \E u \in UserIds : DeleteUser(u)

SpecCreator == InitCreator /\ [][NextCreator]_vars

InitFinal == SyncStart /\ CatStart("Industry") /\ RfpStart /\ OtherStart

NextFinal ==
    \/ \E u \in UserIds : CreateUser(u)
    \/ \E r \in RfpIds, u \in UserIds : CreateProposal(r, u)
    \/ \E pk \in FinalIds, r \in RfpIds, org \in Orgs, snap \in Snapshots :
           CreateFinalized(pk, r, org, snap)
    \/ \E r \in RfpIds : DeleteProposal(r)
    \/ \E u \in UserIds : DeleteUser(u)

SpecFinal == InitFinal /\ [][NextFinal]_vars

InitInvite == SyncStart /\ CatStart("Industry") /\ RfpStart /\ OtherStart

NextInvite ==
    \/ \E k \in InviteIds, at \in Times : CreateInvite(k, at)
    \/ \E k \in InviteIds : deactivate(k)
    \/ \E k \in InviteIds : Refresh(k)
    \/ Tick

SpecInvite == InitInvite /\ [][NextInvite]_vars

InitAssign ==
    SyncStart /\ CatStart("Industry") /\ RfpStart /\ OtherStart

NextAssign ==
    \/ \E pk \in AssignIds, u \in UserIds \cup {NULL}, org \in OrgOrNone,
          bc \in CatIds \cup {NULL} : CreateAssignment(pk, u, org, bc)
    \/ \E pk \in AssignIds, u \in UserIds \cup {NULL} : Reassign(pk, u)
    \/ \E pk \in AssignIds : DeleteAssignment(pk)

SpecAssign == InitAssign /\ [][NextAssign]_vars

\* ------------------------------------------------------------------------
\*  Properties of the role/groups synchronisation (SpecSync)
\* ------------------------------------------------------------------------
GroupOps == {"add", "remove", "set", "clear"}

\* C1: in every committed state the stored role is null or one of the
\* stored groups of the user.
C1_RoleInGroups == role = NULL \/ role \in groups

\* C2: once a save of an instance whose role is R has completed, the stored
\* groups are exactly {R} for a non-null R and exactly {} for a null R.
C2_SaveReplacesGroups ==
    last.op = "save" => groups = (IF last.rid = NULL THEN {} ELSE {last.rid})

\* C8: every save and every group add/remove/set/clear runs a bounded number
\* of receivers, and _sync_role_to_groups (trigger 1) never runs after
\* _sync_groups_to_role (trigger 2) within one operation: a save runs it once,
\* before any m2m_changed receiver, and a group operation never runs it.
C8_NoMutualRecursion ==
    LET c == last.calls IN
    /\ Len(c) <= 6
    /\ \A k \in 1..Len(c) :
         c[k] = "_sync_role_to_groups" =>
             \A j \in 1..(k - 1) : c[j] \notin {"_sync_groups_to_role", "_sync_role_to_groups"}
    /\ last.op \in GroupOps =>
         /\ Len(c) <= 4
         /\ \A k \in 1..Len(c) : c[k] = "_sync_groups_to_role"

\* A save that replaced a held group by the new role: both m2m_changed pairs
\* ran and trigger 2 wrote the stored role.
C8_Witness ==
    /\ last.op = "save"
    /\ Len(last.calls) = 6
    /\ role # last.rid

\* C9: adding one group G to a user with no prior role (the stored role is
\* null, and so is the role of the instance the group is added through)
\* leaves the stored role equal to G.
C9_AddSetsRole ==
    (/\ last.op = "add"
     /\ Cardinality(last.ids) = 1
     /\ last.preRole = NULL
     /\ last.rid = NULL)
        => role \in last.ids

\* C10: after the groups of a user were cleared the stored role is null.
C10_ClearNullsRole == last.op = "clear" => role = NULL

\* C16: a save of an instance whose role is a non-null R, for a user whose
\* groups were non-empty and did not hold R, leaves the stored role equal to R.
C16_RoleAssignmentKept ==
    (/\ last.op = "save"
     /\ last.rid # NULL
     /\ last.preGroups # {}
     /\ last.rid \notin last.preGroups)
        => role = last.rid

\* C17: a save of an instance whose role was not assigned since it was
\* loaded leaves the stored role and the stored groups as they were.
C17_SaveWithoutAssignment ==
    (last.op = "save" /\ ~last.assigned)
        => (role = last.preRole /\ groups = last.preGroups)

\* C19: after a clear, or after an add whose changed set is empty (every
\* added group was already held), the stored role is the lowest pk of the
\* stored groups, or null when there is none.
C19_FallbackRole ==
    (\/ last.op = "clear"
     \/ (last.op = "add" /\ last.ids # {} /\ last.ids \subseteq last.preGroups))
        => role = FirstByPk(groups)

\* ------------------------------------------------------------------------
\*  Properties of the tenant-aware catalogue (SpecCat)
\* ------------------------------------------------------------------------
\* C3: visible_to(O) for an organization O returns exactly the global rows
\* that do not block O together with all rows owned by O.
C3_VisibleToOrg ==
    (seen.asked /\ seen.org # NULL) =>
        seen.pks = { k \in Pks(rows) :
                       \/ rows[k].organization = NULL /\ seen.org \notin rows[k].blocked_for
                       \/ rows[k].organization = seen.org }

\* C4: no row owned by an organization is returned to a different viewer,
\* organization or none, whatever the block-lists hold.
C4_TenantIsolation ==
    seen.asked =>
        \A k \in Pks(rows) :
            (rows[k].organization # NULL /\ rows[k].organization # seen.org)
                => k \notin seen.pks

\* A viewer was shown some row while a row of another organization, with a
\* block-list of its own, is stored.
C4_Witness ==
    /\ seen.asked
    /\ seen.pks # {}
    /\ \E k \in Pks(rows) :
          /\ rows[k].organization \notin {NULL, seen.org}
          /\ rows[k].blocked_for # {}

\* C5: visible_to(None) returns exactly the rows without an organization,
\* whatever their block-lists hold.
C5_VisibleToNone ==
    (seen.asked /\ seen.org = NULL) =>
        seen.pks = { k \in Pks(rows) : rows[k].organization = NULL }

\* C6: no two rows of a catalogue table share (organization, natural key),
\* the rows without an organization forming one scope.
C6_UniquePerScope ==
    \A j, k \in Pks(rows) :
        j # k => ~(/\ rows[j].organization = rows[k].organization
                   /\ rows[j].name = rows[k].name)

\* ------------------------------------------------------------------------
\*  Properties of the proposal graph (SpecRfp)
\* ------------------------------------------------------------------------
\* Some join row of the proposal graph references the catalogue row itself.
ReferencedByJoin(kind, pk) ==
    CASE kind = "Service" -> \E j \in rfp_services : j[2] = pk
      [] kind = "BusinessCycle" -> \E j \in rfp_business_cycles : j[2] = pk
      [] kind = "FunctionalArea" -> \E j \in rfp_areas : j[2] = pk
      [] OTHER -> FALSE

\* C7: a delete of a service, business cycle or functional area that a join
\* row references ends in ProtectedError and changes no table.
C7_ProtectOnDelete ==
    [][ \A kind \in {"Service", "BusinessCycle", "FunctionalArea"}, pk \in CatIds :
          (/\ outcome'.op = "delete"
           /\ outcome'.kind = kind
           /\ outcome'.pk = pk
           /\ ReferencedByJoin(kind, pk))
          => (outcome'.result = "ProtectedError" /\ UNCHANGED rfpTables) ]_vars

\* A refused delete of a functional area that a proposal references.
C7_Witness ==
    /\ outcome = [op |-> "delete", kind |-> "FunctionalArea", pk |-> outcome.pk,
                  result |-> "ProtectedError"]
    /\ ReferencedByJoin("FunctionalArea", outcome.pk)
    /\ generated_rfp # {}

CatalogueKinds == {"Service", "BusinessCycle", "FunctionalArea"}

\* C18 as stated: a delete of a service, business cycle or functional area
\* is refused exactly while a join row references that very row and removes
\* the row otherwise; a delete of a proposal always succeeds, removes its
\* join rows and leaves the catalogue rows in place.
C18_RefusedOnlyWhileReferenced ==
    [][ outcome'.op = "delete" =>
          /\ outcome'.kind \in CatalogueKinds =>
               (outcome'.result = "ProtectedError"
                    <=> ReferencedByJoin(outcome'.kind, outcome'.pk))
          /\ outcome'.kind = "GeneratedRFP" =>
               /\ outcome'.result = "ok"
               /\ outcome'.pk \notin generated_rfp'
               /\ \A j \in rfp_services' \cup rfp_business_cycles' \cup rfp_areas' :
                      j[1] # outcome'.pk
               /\ UNCHANGED <<service, business_cycle, functional_area>> ]_vars

\* Some join row references a functional area of the business cycle.
AreaOfCycleReferenced(b) ==
    \E fa \in functional_area : fa[2] = b /\ ReferencedByJoin("FunctionalArea", fa[1])

\* What stops the delete of a catalogue row: a join row that references it
\* or, for a business cycle, one of its functional areas.
HeldByJoin(kind, pk) ==
    \/ ReferencedByJoin(kind, pk)
    \/ kind = "BusinessCycle" /\ AreaOfCycleReferenced(pk)

\* C18 as amended: the delete of a business cycle is refused also while a
\* join row references one of its functional areas.
C18_RefusedOnlyWhileHeld ==
    [][ outcome'.op = "delete" =>
          /\ outcome'.kind \in CatalogueKinds =>
               /\ outcome'.result = "ProtectedError" <=> HeldByJoin(outcome'.kind, outcome'.pk)
               /\ outcome'.result = "ok" =>
                    /\ outcome'.kind = "Service" => outcome'.pk \notin service'
                    /\ outcome'.kind = "BusinessCycle" => outcome'.pk \notin business_cycle'
                    /\ outcome'.kind = "FunctionalArea" =>
                           \A fa \in functional_area' : fa[1] # outcome'.pk
          /\ outcome'.kind = "GeneratedRFP" =>
               /\ outcome'.result = "ok"
               /\ outcome'.pk \notin generated_rfp'
               /\ \A j \in rfp_services' \cup rfp_business_cycles' \cup rfp_areas' :
                      j[1] # outcome'.pk
               /\ UNCHANGED <<service, business_cycle, functional_area>> ]_vars

\* A business cycle that no join row references was refused deletion: a
\* proposal references one of its functional areas.
C18_Witness ==
    /\ outcome.op = "delete"
    /\ outcome.kind = "BusinessCycle"
    /\ outcome.result = "ProtectedError"
    /\ ~ReferencedByJoin("BusinessCycle", outcome.pk)
    /\ AreaOfCycleReferenced(outcome.pk)

\* ------------------------------------------------------------------------
\*  Properties of user and proposal deletion (SpecCreator, SpecFinal)
\* ------------------------------------------------------------------------
\* C12: the delete of a user keeps every catalogue row the user created,
\* with the creator set to null and every other field as it was.
C12_UserDeleteKeepsRows ==
    [][ removal'.op = "delete_user" =>
          /\ removal'.result = "ok"
          /\ \A c \in catalogue :
                 IF c.user = removal'.pk
                 THEN [c EXCEPT !.user = NULL] \in catalogue'
                 ELSE c \in catalogue' ]_vars

\* A user who created a tenant-owned row was deleted and the row is stored
\* without a creator.
C12_Witness ==
    /\ removal.op = "delete_user"
    /\ removal.nulled # {}
    /\ \A pk \in removal.nulled :
           \E c \in catalogue : c.pk = pk /\ c.user = NULL /\ c.organization # NULL

\* C13: whenever a proposal is deleted, by its own delete or with its owner,
\* every finalized row derived from it stays stored with a null source and
\* its snapshot and organization as they were.
C13_SnapshotOutlivesSource ==
    [][ \A p \in proposals :
          (\A q \in proposals' : q.pk # p.pk) =>
              \A f \in finalized :
                  f.source_rfp = p.pk => [f EXCEPT !.source_rfp = NULL] \in finalized' ]_vars

\* A proposal with two finalized snapshots was deleted; both are stored
\* without a source.
C13_Witness ==
    /\ removal.op = "delete_rfp"
    /\ Cardinality(removal.nulled) = 2
    /\ \A pk \in removal.nulled :
           \E f \in finalized : f.pk = pk /\ f.source_rfp = NULL

\* ------------------------------------------------------------------------
\*  Properties of Invite (SpecInvite)
\* ------------------------------------------------------------------------
\* C14: after every step, is_valid() of each invite is true exactly when
\* is_active is true and expires_at is strictly later than the current
\* time; it is false for each invite on which deactivate() has been called;
\* and an invite that had expired before the step is not valid after it.
C14_InviteValidity ==
    [][ \A k \in DOMAIN invite' :
          /\ is_valid(invite'[k], now') <=> (invite'[k].is_active /\ invite'[k].expires_at > now')
          /\ k \in deactivated' => ~is_valid(invite'[k], now')
          /\ (k \in DOMAIN invite /\ invite[k].expires_at <= now)
                 => ~is_valid(invite'[k], now') ]_vars

\* An invite that was deactivated before it expired, with time still
\* passing, next to an invite that is still active and has expired.
C14_Witness ==
    /\ \E k \in deactivated : invite[k].expires_at > now /\ now > 0
    /\ \E k \in DOMAIN invite : invite[k].is_active /\ invite[k].expires_at <= now

\* ------------------------------------------------------------------------
\*  Properties of UserBusinessCycleAssignment (SpecAssign)
\* ------------------------------------------------------------------------
\* C15: no two assignment rows share the same (organization,
\* business_cycle) pair, whatever values the two references take, null
\* included.
C15_UniquePair ==
    \A a, b \in assignments :
        a.pk # b.pk =>
            <<a.organization, a.business_cycle>> # <<b.organization, b.business_cycle>>

\* C15 as the constraint enforces it: no two assignment rows whose
\* organization and business_cycle are both set share the pair.
C15_UniqueSetPair ==
    \A a, b \in assignments :
        (/\ a.pk # b.pk
         /\ a.organization # NULL /\ a.business_cycle # NULL
         /\ b.organization # NULL /\ b.business_cycle # NULL)
            => <<a.organization, a.business_cycle>> # <<b.organization, b.business_cycle>>

\* A second assignment of a business cycle within an organization that
\* already has it assigned was refused.
C15_Witness ==
    /\ assigning = "IntegrityError"
    /\ \E a \in assignments : a.organization # NULL /\ a.business_cycle # NULL

\* ------------------------------------------------------------------------
\*  Properties of a save seen from another connection (SpecTxn)
\* ------------------------------------------------------------------------
\* C11: what a reader reads while a role mutation is under way never
\* violates role \in groups \cup {null}.
C11_ReaderSeesConsistentPair ==
    observed.mid => observed.role \in observed.groups \cup {NULL}

====
